---- MODULE Spec2Model ----
(***************************************************************************)
(* Fetch orchestration and batch scheduling of Website-Spider.             *)
(*                                                                         *)
(*   SpecTab    MultitabWebSpider.crawl_urls (selenium-use.py): one shared *)
(*              driver, a pool of tabs inspected by one polling loop.      *)
(*   SpecEngine _get_single_html_source (playwright-use.py and             *)
(*              patchright-use.py): strategies and retries for one URL.    *)
(*   SpecPool   _batch_get_html_sources (thread pool) and get_html_sources *)
(*              (process pool): one task per URL, collected by index.      *)
(*   Spec       the batch schedulers together: crawl_urls and the pools.   *)
(*                                                                         *)
(* A page's html is modelled by two lengths: raw = len(html) and           *)
(* strip = len(html.strip()).  Calls into the browser are the environment: *)
(* each either returns one of a small set of values or raises.             *)
(***************************************************************************)
EXTENDS Integers, Sequences, FiniteSets, TLC

VARIABLES
    sched,             \* which entry point runs: "tab", "engine", "pool"
    \* ---- crawl_urls (selenium-use.py 354-554)
    tpc,               \* position in crawl_urls
    total,             \* len(urls)
    max_tabs,          \* the max_tabs argument, then max(1, max_tabs)
    timeout,           \* self.timeout
    never_ready,       \* indices whose page never shows a body nor a ready state
    url_iter,          \* index the iterator yields next
    created,           \* tabs opened by the seeding loop
    next_handle,       \* handles handed out so far (window_handles[-1] is fresh)
    active_tabs,       \* handle -> info, kept in insertion order
    todo,              \* list(active_tabs.keys()) not yet inspected in this pass
    results_by_index,  \* idx -> record
    path,              \* idx -> the branch of crawl_urls that wrote its record
    probes,            \* idx -> calls of _try_bypass_ssl_interstitial on its tab
    ordered,           \* the returned list
    \* ---- _get_single_html_source (playwright-use.py 69-544, patchright-use.py 238-477)
    engine,            \* "playwright" or "patchright"
    headless,          \* the headless argument (preferred_headless)
    return_status_code,
    epc,               \* position in _try_with_different_strategies
    strat,             \* number of the strategy being tried, from 1
    stack,             \* the activations of _get_html_with_browser, outermost first
    ret,               \* what the outermost activation gave the strategy
    result,            \* what _get_single_html_source returns
    attempts,          \* activations of _get_html_with_browser under this strategy
    seen,              \* what the attempts under this strategy yielded
    prev_attempts,     \* attempts, for the strategy tried before this one
    prev_seen,         \* seen, for the strategy tried before this one
    dir_left,          \* some directory made by mkdtemp was left behind for good
    tried,             \* use_headless and is_mobile of each call a strategy made, in order
    user_agent,        \* kwargs.get('user_agent'): NoAgent or the caller's override
    agents,            \* the user agents the attempts have chosen for their sessions
    \* ---- _batch_get_html_sources (playwright-use.py 547-602, patchright-use.py
    \*      480-535) and get_html_sources (selenium-use.py 600-662)
    variant,           \* "thread" or "process"
    ppc,               \* position in the batch call
    url_count,         \* len(url_list)
    max_workers,       \* workers of the executor
    status_wanted,     \* return_status_code of the batch call
    save_to_file,      \* the caller gave an output path (save_to_file, result_path)
    futures,           \* index -> the future submitted for url_list[index]
    results,           \* index -> record, NoResult while not collected
    yielded,           \* the futures as_completed has yielded
    saved,             \* the output file
    batch_out,         \* the returned list
    \* ---- _get_status_code (selenium-use.py 275-309)
    sc_pc,             \* position in _get_status_code
    sc_log,            \* the performance log of the driver
    sc_access,         \* "ok", "dead" (service not connectable), "raises" (get_log raises)
    sc_body,           \* find_elements(body): "yes", "no", "raises"
    sc_page,           \* driver.page_source
    sc_read,           \* the entries the loop of line 288 goes through
    sc_code            \* the returned status code

tabVars == <<tpc, total, max_tabs, timeout, never_ready, url_iter, created, next_handle,
             active_tabs, todo, results_by_index, path, probes, ordered>>

engVars == <<engine, headless, return_status_code, epc, strat, stack, ret, result,
             attempts, seen, prev_attempts, prev_seen, dir_left, tried, user_agent,
             agents>>

poolVars == <<variant, ppc, url_count, max_workers, status_wanted, save_to_file,
              futures, results, yielded, saved, batch_out>>

statVars == <<sc_pc, sc_log, sc_access, sc_body, sc_page, sc_read, sc_code>>

vars == <<sched, tabVars, engVars, poolVars, statVars>>

----------------------------------------------------------------------------
(* Bounds of the model *)

MaxUrls == 3
MaxTabs == 2
MaxWorkers == 2

(* seconds between two readings of time.time() that the model tells apart *)
TickSeconds == 5
(* the input index of the URL whose page may never show a body nor a ready
   state; the page of any other URL may still be found not ready at any
   inspection *)
SlowIndex == 1
(* the largest self.timeout for which the deadlines are compared *)
MaxTimeout == 30
(* the longest performance log _get_status_code is given *)
MaxLog == 2

(* self.timeout, in seconds *)
TimeoutValues == {5}

----------------------------------------------------------------------------
(* Values *)

Absent == -1          \* a key the record does not have
NoResult == [url |-> Absent]

Doc(raw, strip) == [raw |-> raw, strip |-> strip]
EmptyHtml == Doc(0, 0)
LenOf(html) == html.raw
StripLen(html) == html.strip

Max(a, b) == IF a >= b THEN a ELSE b
Min(a, b) == IF a <= b THEN a ELSE b

(* urls[i]: the input list; entries are distinct names *)
UrlAt(i) == i + 100

----------------------------------------------------------------------------
(* selenium-use.py: records *)

FailedNoStatus(u, err) ==
    [url |-> u, source_code |-> EmptyHtml, status |-> "failed",
     status_code |-> Absent, error |-> err, content_length |-> 0]

FailedRecord(u, err) ==
    [url |-> u, source_code |-> EmptyHtml, status |-> "failed",
     status_code |-> 0, error |-> err, content_length |-> 0]

SuccessRecord(u, html, status_code) ==
    [url |-> u, source_code |-> html, status |-> "success",
     status_code |-> status_code, error |-> "", content_length |-> LenOf(html)]

(* performance-log entries *)
LogEntry(method, u, status) == [method |-> method, url |-> u, status |-> status]

(* only the first entry of the log is looked at *)
FirstLoggedStatus_HeadOnly(logs, u) ==
    IF logs = <<>> THEN 0
    ELSE IF Head(logs).method = "Network.responseReceived" /\ Head(logs).url = u
    THEN Head(logs).status ELSE 0

RECURSIVE FirstLoggedStatus(_, _)
FirstLoggedStatus(logs, u) ==
    IF logs = <<>> THEN 0
    ELSE LET e == Head(logs) IN
         IF e.method = "Network.responseReceived" /\ e.url = u /\ e.status # 0
         THEN e.status
         ELSE FirstLoggedStatus(Tail(logs), u)

(* _get_status_code: a get_log that raises is an empty log, a find_elements
   that raises is has_body = FALSE *)
GetStatusCode(logs, u, has_body, page_source) ==
    LET logged == FirstLoggedStatus(logs, u) IN
    IF logged # 0 THEN logged
    ELSE IF has_body /\ LenOf(page_source) > 100 THEN 200 ELSE 0

(* the entries a performance log is made of: responses and other events, for
   the request url and for another url, with and without a status *)
LogEntries(u) ==
    {LogEntry(method, w, status) :
        method \in {"Network.responseReceived", "Network.requestWillBeSent"},
        w \in {u, u + 1}, status \in {0, 200, 404}}

(* lines 278-288: the log is gone through only if the service is
   connectable and get_log returns *)
ReadableLog(access, log) == IF access = "ok" THEN log ELSE <<>>

StatInit ==
    /\ sc_pc = "start"
    /\ sc_log \in UNION {[1..n -> LogEntries(UrlAt(0))] : n \in 0..MaxLog}
    /\ sc_access \in {"ok", "dead", "raises"}
    /\ sc_body \in {"yes", "no", "raises"}
    /\ sc_page \in {Doc(40, 40), Doc(100, 100), Doc(130, 40), Doc(150, 150)}
    /\ sc_read = <<>>
    /\ sc_code = Absent

StatIdle ==
    /\ sc_pc = "idle" /\ sc_log = <<>> /\ sc_access = "ok" /\ sc_body = "no"
    /\ sc_page = EmptyHtml /\ sc_read = <<>> /\ sc_code = Absent

(* lines 278-288 *)
StatusReadLog ==
    /\ sc_pc = "start"
    /\ UNCHANGED <<sched, tabVars, engVars, poolVars>>
    /\ sc_read' = ReadableLog(sc_access, sc_log)
    /\ sc_pc' = "read"
    /\ UNCHANGED <<sc_log, sc_access, sc_body, sc_page, sc_code>>

(* lines 288-309 *)
StatusReturn ==
    /\ sc_pc = "read"
    /\ UNCHANGED <<sched, tabVars, engVars, poolVars>>
    /\ sc_code' = GetStatusCode(sc_read, UrlAt(0), sc_body = "yes", sc_page)
    /\ sc_pc' = "returned"
    /\ UNCHANGED <<sc_log, sc_access, sc_body, sc_page, sc_read>>

StatNext == StatusReadLog \/ StatusReturn

(* what a tab of u can hold when it is snapshotted: page_source, the
   performance log, whether a body node is found *)
Page(html, logs, has_body) == [html |-> html, logs |-> logs, has_body |-> has_body]
PagesFor(u) ==
    {Page(Doc(40, 40), <<>>, TRUE),
     Page(Doc(150, 150), <<>>, TRUE),
     Page(Doc(150, 150), <<LogEntry("Network.responseReceived", u, 404)>>, TRUE)}
ReadyStates == {"loading", "interactive", "complete"}

----------------------------------------------------------------------------
(* crawl_urls *)

HardKillAfter_Late(t) == t * 4

(* line 396 *)
HardKillAfter(t) == Max(t * 2, t + 5)

(* the entry has no 'bypassed' key *)
NoKey == "absent"

Handles == {active_tabs[k].handle : k \in DOMAIN active_tabs}
InfoOf(h) == CHOOSE t \in {active_tabs[k] : k \in DOMAIN active_tabs} : t.handle = h

(* a pop that removes nothing *)
Without_Keep(tabs, h) == tabs

(* active_tabs.pop(handle, None) *)
RECURSIVE Without(_, _)
Without(tabs, h) ==
    IF tabs = <<>> THEN <<>>
    ELSE IF Head(tabs).handle = h THEN Without(Tail(tabs), h)
    ELSE <<Head(tabs)>> \o Without(Tail(tabs), h)

Keys(tabs) == [k \in DOMAIN tabs |-> tabs[k].handle]

(* the tab opened for the url at the other end of the list *)
NewTab_Mirrored(h, idx, bypassed) ==
    [handle |-> h, idx |-> total - 1 - idx, url |-> UrlAt(total - 1 - idx),
     elapsed |-> 0, bypassed |-> bypassed]

(* lines 381, 447, 476, 528: the entry of active_tabs for a new handle;
   bypassed is "False", "True", or NoKey when the entry has no such key *)
NewTab(h, idx, bypassed) ==
    [handle |-> h, idx |-> idx, url |-> UrlAt(idx), elapsed |-> 0, bypassed |-> bypassed]

TabInit ==
    /\ tpc = "start"
    /\ total \in 0..MaxUrls
    /\ max_tabs \in 0..MaxTabs
    /\ timeout \in TimeoutValues
    /\ never_ready \in {{}} \cup {{i} : i \in {SlowIndex} \cap 0..(total - 1)}
    /\ url_iter = 0
    /\ created = 0
    /\ next_handle = 0
    /\ active_tabs = <<>>
    /\ todo = <<>>
    /\ results_by_index = [i \in 0..(total - 1) |-> NoResult]
    /\ path = [i \in 0..(total - 1) |-> "none"]
    /\ probes = [i \in 0..(total - 1) |-> 0]
    /\ ordered = <<>>

(* lines 361-372: the empty input, max(1, max_tabs), the base handle *)
Begin ==
    /\ tpc = "start"
    /\ UNCHANGED <<sched, engVars, poolVars, statVars>>
    /\ \E base_ok \in BOOLEAN :
         IF total = 0
         THEN /\ tpc' = "returned"
              /\ max_tabs' = max_tabs
         ELSE /\ tpc' = IF base_ok THEN "seed" ELSE "raised"
              /\ max_tabs' = Max(1, max_tabs)
    /\ UNCHANGED <<total, timeout, never_ready, url_iter, created, next_handle,
                   active_tabs, todo, results_by_index, path, ordered, probes>>

(* lines 373-382: one iteration of the seeding loop, the tab opens *)
SeedOpen ==
    /\ tpc = "seed"
    /\ UNCHANGED <<sched, engVars, poolVars, statVars>>
    /\ created < Min(max_tabs, total)
    /\ url_iter < total
    /\ url_iter' = url_iter + 1
    /\ next_handle' = next_handle + 1
    /\ active_tabs' = Append(active_tabs, NewTab(next_handle + 1, url_iter, "False"))
    /\ created' = created + 1
    /\ UNCHANGED <<tpc, total, max_tabs, timeout, never_ready, todo,
                   results_by_index, path, ordered, probes>>

(* lines 383-392: one iteration of the seeding loop, window.open raises *)
SeedOpenFails ==
    /\ tpc = "seed"
    /\ UNCHANGED <<sched, engVars, poolVars, statVars>>
    /\ created < Min(max_tabs, total)
    /\ url_iter < total
    /\ url_iter' = url_iter + 1
    /\ results_by_index' =
           [results_by_index EXCEPT ![url_iter] = FailedNoStatus(UrlAt(url_iter), "exc")]
    /\ path' = [path EXCEPT ![url_iter] = "seed_fail"]
    /\ UNCHANGED <<tpc, total, max_tabs, timeout, never_ready, created, next_handle,
                   active_tabs, todo, ordered, probes>>

(* lines 373-377: the seeding loop ends on its condition or on StopIteration *)
SeedEnd ==
    /\ tpc = "seed"
    /\ UNCHANGED <<sched, engVars, poolVars, statVars>>
    /\ created >= Min(max_tabs, total) \/ url_iter >= total
    /\ tpc' = "poll"
    /\ UNCHANGED <<total, max_tabs, timeout, never_ready, url_iter, created,
                   next_handle, active_tabs, todo, results_by_index, path, ordered, probes>>

(* a refill whose iterator starts over *)
Refill_Rewind(tabs, open_ok, bypassed) ==
    IF url_iter >= total
    THEN [tabs |-> tabs, iter |-> url_iter, handle |-> next_handle]
    ELSE IF open_ok
    THEN [tabs |-> Append(tabs, NewTab(next_handle + 1, 0, bypassed)),
          iter |-> url_iter + 1, handle |-> next_handle + 1]
    ELSE [tabs |-> tabs, iter |-> url_iter + 1, handle |-> next_handle]

(* the refill blocks (441-451, 471-480, 523-532): next(url_iter), then
   window.open; an index taken from the iterator is gone even when the open
   raises.  `bypassed` is what the new entry holds under 'bypassed'. *)
Refill(tabs, open_ok, bypassed) ==
    IF url_iter >= total
    THEN [tabs |-> tabs, iter |-> url_iter, handle |-> next_handle]
    ELSE IF open_ok
    THEN [tabs |-> Append(tabs, NewTab(next_handle + 1, url_iter, bypassed)),
          iter |-> url_iter + 1, handle |-> next_handle + 1]
    ELSE [tabs |-> tabs, iter |-> url_iter + 1, handle |-> next_handle]

(* line 423 *)
IsReady(has_body, rs) == has_body \/ rs \in {"interactive", "complete"}

(* the soft deadline forgotten *)
DueForSnapshot_ReadyOnly(ready, elapsed, t) == ready

(* line 483 *)
DueForSnapshot(ready, elapsed, t) == ready \/ elapsed >= t

StopLoadingFirst_Always(ready) == TRUE

(* line 488: Page.stopLoading and window.stop are tried before page_source *)
StopLoadingFirst(ready) == ~ready

(* only an entry that has the key, holding False, is probed *)
RunsBypassProbe_KeyOnly(info) == info.bypassed = "False"

(* line 410: not info.get('bypassed') *)
RunsBypassProbe(info) == info.bypassed # "True"

(* lines 410-412, reached once switch_to.window has returned *)
Probed(info) ==
    [probes EXCEPT ![info.idx] = IF RunsBypassProbe(info) THEN @ + 1 ELSE @]

BodyProbe(idx) == IF idx \in never_ready THEN {FALSE} ELSE BOOLEAN
StateProbe(idx) == IF idx \in never_ready THEN {"loading"} ELSE ReadyStates

(* the except branch storing nothing *)
HandleLostRecord_None(u) == NoResult

(* lines 427-433 *)
HandleLostRecord(u) == FailedNoStatus(u, "exc")

(* lines 397-405 and 424-452: switch_to.window raises *)
InspectHandleLost ==
    /\ tpc = "poll" /\ todo # <<>>
    /\ UNCHANGED <<sched, engVars, poolVars, statVars>>
    /\ LET info == InfoOf(Head(todo)) IN
       \E open_ok \in BOOLEAN :
         LET r == Refill(Without(active_tabs, info.handle), open_ok, "False") IN
         /\ results_by_index' =
                [results_by_index EXCEPT ![info.idx] = HandleLostRecord(info.url)]
         /\ path' = [path EXCEPT ![info.idx] = "handle_exc"]
         /\ active_tabs' = r.tabs
         /\ url_iter' = r.iter
         /\ next_handle' = r.handle
    /\ todo' = Tail(todo)
    /\ UNCHANGED <<tpc, total, max_tabs, timeout, never_ready, created, ordered, probes>>

(* lines 454-481: elapsed >= hard_kill_after, whatever the probe said *)
InspectHardKill ==
    /\ tpc = "poll" /\ todo # <<>>
    /\ UNCHANGED <<sched, engVars, poolVars, statVars>>
    /\ LET info == InfoOf(Head(todo)) IN
       /\ info.elapsed >= HardKillAfter(timeout)
       /\ \E open_ok \in BOOLEAN :
            LET r == Refill(Without(active_tabs, info.handle), open_ok, NoKey) IN
            /\ results_by_index' =
                   [results_by_index EXCEPT ![info.idx] = FailedNoStatus(info.url, "timeout")]
            /\ path' = [path EXCEPT ![info.idx] = "hard"]
            /\ active_tabs' = r.tabs
            /\ url_iter' = r.iter
            /\ next_handle' = r.handle
    /\ probes' = Probed(InfoOf(Head(todo)))
    /\ todo' = Tail(todo)
    /\ UNCHANGED <<tpc, total, max_tabs, timeout, never_ready, created, ordered>>

(* Snapshot with its two branches swapped *)
Snapshot_Swapped(u, snap_ok, html, logs, has_body) ==
    IF ~snap_ok
    THEN SuccessRecord(u, html, GetStatusCode(logs, u, has_body, html))
    ELSE FailedRecord(u, "exc")

(* lines 485-515: the record of a snapshot; switch_to.window or page_source
   may raise *)
Snapshot(u, snap_ok, html, logs, has_body) ==
    IF snap_ok
    THEN SuccessRecord(u, html, GetStatusCode(logs, u, has_body, html))
    ELSE FailedRecord(u, "exc")

(* every value line 423 can give for the tab of idx *)
ReadyProbes(idx) ==
    {IsReady(has_body, rs) : has_body \in BodyProbe(idx), rs \in StateProbe(idx)}

(* lines 483-532: ready, or past the soft deadline *)
InspectSnapshot ==
    /\ tpc = "poll" /\ todo # <<>>
    /\ UNCHANGED <<sched, engVars, poolVars, statVars>>
    /\ LET info == InfoOf(Head(todo)) IN
       /\ info.elapsed < HardKillAfter(timeout)
       /\ \E ready \in ReadyProbes(info.idx), snap_ok \in BOOLEAN,
             p \in PagesFor(info.url), open_ok \in BOOLEAN :
            LET r == Refill(Without(active_tabs, info.handle), open_ok, "False")
                rec == Snapshot(info.url, snap_ok, p.html, p.logs, p.has_body) IN
            /\ DueForSnapshot(ready, info.elapsed, timeout)
            /\ results_by_index' = [results_by_index EXCEPT ![info.idx] = rec]
            /\ path' = [path EXCEPT ![info.idx] =
                           IF StopLoadingFirst(ready)
                           THEN (IF snap_ok THEN "soft" ELSE "soft_exc")
                           ELSE (IF snap_ok THEN "ready" ELSE "ready_exc")]
            /\ active_tabs' = r.tabs
            /\ url_iter' = r.iter
            /\ next_handle' = r.handle
    /\ probes' = Probed(InfoOf(Head(todo)))
    /\ todo' = Tail(todo)
    /\ UNCHANGED <<tpc, total, max_tabs, timeout, never_ready, created, ordered>>

(* line 412: info['bypassed'] = True *)
MarkBypassed(tabs, h) ==
    [k \in DOMAIN tabs |->
        IF tabs[k].handle = h THEN [tabs[k] EXCEPT !.bypassed = "True"] ELSE tabs[k]]

(* lines 406-423 with neither branch taken: the tab stays *)
InspectWait ==
    /\ tpc = "poll" /\ todo # <<>>
    /\ UNCHANGED <<sched, engVars, poolVars, statVars>>
    /\ LET info == InfoOf(Head(todo)) IN
       /\ info.elapsed < HardKillAfter(timeout)
       /\ \E ready \in ReadyProbes(info.idx) :
            ~DueForSnapshot(ready, info.elapsed, timeout)
       /\ active_tabs' = MarkBypassed(active_tabs, info.handle)
    /\ probes' = Probed(InfoOf(Head(todo)))
    /\ todo' = Tail(todo)
    /\ UNCHANGED <<tpc, total, max_tabs, timeout, never_ready, url_iter, created,
                   next_handle, results_by_index, path, ordered>>

(* line 534 and 397-398: the pass is over, sleep, start the next pass *)
NextPass ==
    /\ tpc = "poll" /\ todo = <<>> /\ active_tabs # <<>>
    /\ UNCHANGED <<sched, engVars, poolVars, statVars>>
    /\ todo' = Keys(active_tabs)
    /\ UNCHANGED <<tpc, total, max_tabs, timeout, never_ready, url_iter, created,
                   next_handle, active_tabs, results_by_index, path, ordered, probes>>

(* time.time() moves on: during the sleep and during any driver call.  elapsed
   is only compared with timeout and hard_kill_after, so it stops there. *)
Tick ==
    /\ tpc \in {"seed", "poll"}
    /\ UNCHANGED <<sched, engVars, poolVars, statVars>>
    /\ \E k \in DOMAIN active_tabs : active_tabs[k].elapsed < HardKillAfter(timeout)
    /\ active_tabs' =
          [k \in DOMAIN active_tabs |->
             [active_tabs[k] EXCEPT
                !.elapsed = Min(active_tabs[k].elapsed + TickSeconds,
                                 HardKillAfter(timeout))]]
    /\ UNCHANGED <<tpc, total, max_tabs, timeout, never_ready, url_iter, created,
                   next_handle, todo, results_by_index, path, ordered, probes>>

(* lines 545-553: results_by_index.get(i, the 'No result' record) *)
Reassemble_Recorded(by_index) ==
    [k \in 1..Cardinality({i \in DOMAIN by_index : by_index[i] # NoResult}) |->
        by_index[k - 1]]

Reassemble(by_index) ==
    [k \in 1..total |->
        IF by_index[k - 1] # NoResult THEN by_index[k - 1]
        ELSE FailedRecord(UrlAt(k - 1), "No result")]

(* lines 397 and 536-554 *)
Return ==
    /\ tpc = "poll" /\ todo = <<>> /\ active_tabs = <<>>
    /\ UNCHANGED <<sched, engVars, poolVars, statVars>>
    /\ tpc' = "returned"
    /\ ordered' = Reassemble(results_by_index)
    /\ UNCHANGED <<total, max_tabs, timeout, never_ready, url_iter, created,
                   next_handle, active_tabs, todo, results_by_index, path, probes>>

TabNext ==
    \/ Begin \/ SeedOpen \/ SeedOpenFails \/ SeedEnd
    \/ InspectHandleLost \/ InspectHardKill \/ InspectSnapshot \/ InspectWait
    \/ NextPass \/ Tick \/ Return

TabIdle ==
    /\ tpc = "idle" /\ total = 0 /\ max_tabs = 0 /\ timeout = 0 /\ never_ready = {}
    /\ url_iter = 0 /\ created = 0 /\ next_handle = 0 /\ active_tabs = <<>>
    /\ todo = <<>> /\ results_by_index = <<>> /\ path = <<>> /\ probes = <<>>
    /\ ordered = <<>>

----------------------------------------------------------------------------
(* _get_single_html_source: the strategy list and _get_html_with_browser *)

Strategy(use_headless, is_mobile) == [use_headless |-> use_headless, is_mobile |-> is_mobile]

(* the headful strategies first *)
Strategies_HeadfulFirst(eng, preferred_headless) ==
    IF eng = "playwright"
    THEN IF preferred_headless
         THEN <<Strategy(FALSE, FALSE), Strategy(FALSE, TRUE),
                Strategy(TRUE, FALSE), Strategy(TRUE, TRUE)>>
         ELSE <<Strategy(FALSE, FALSE), Strategy(TRUE, FALSE)>>
    ELSE IF preferred_headless
         THEN <<Strategy(FALSE, FALSE), Strategy(TRUE, FALSE)>>
         ELSE <<Strategy(TRUE, FALSE)>>

(* playwright-use.py 461-525, patchright-use.py 429-458: the arguments of the
   calls of _get_html_with_browser, in the order of the strategy blocks *)
Strategies(eng, preferred_headless) ==
    IF eng = "playwright"
    THEN IF preferred_headless
         THEN <<Strategy(TRUE, FALSE), Strategy(TRUE, TRUE),
                Strategy(FALSE, FALSE), Strategy(FALSE, TRUE)>>
         ELSE <<Strategy(FALSE, FALSE), Strategy(FALSE, TRUE)>>
    ELSE IF preferred_headless
         THEN <<Strategy(TRUE, FALSE), Strategy(FALSE, FALSE)>>
         ELSE <<Strategy(FALSE, FALSE)>>

(* what page.content() can give; Raised stands for a call that raises *)
Raised == Doc(-1, -1)

(* user_agent is None *)
NoAgent == "none"
EngineDocs == {Doc(40, 40), Doc(130, 40), Doc(100, 100), Doc(150, 150)}
ContentResults == EngineDocs \cup {Raised}
ExcKinds == {"Timeout", "Other"}

(* _get_status_code_from_response of playwright-use.py never gives 0 *)
PwStatuses == {200, 404}
(* patchright-use.py 289-305: 0 unless a response for the url was seen *)
PrStatuses == {0, 200}

(* a page that carries the text tested at patchright-use.py 315 *)
BlockPage == Doc(160, 160)

(* patchright-use.py 315 *)
HasBlockSignature(html) == html = BlockPage

Label(html) ==
    IF html = Doc(40, 40) THEN "len40"
    ELSE IF html = Doc(150, 150) THEN "len150"
    ELSE IF HasBlockSignature(html) THEN "block" ELSE "other"

NoRet == [kind |-> "none", html |-> EmptyHtml, status |-> 0]
Value(html, status) == [kind |-> "value", html |-> html, status |-> status]
RaisedOut == [kind |-> "raise", html |-> EmptyHtml, status |-> 0]

Frame(rc, site) ==
    [rc |-> rc, site |-> site, stage |-> "enter", dir |-> "none", sess |-> "none",
     held |-> FALSE, exc |-> "none", val |-> NoRet]

Top == stack[Len(stack)]
Below == SubSeq(stack, 1, Len(stack) - 1)
SetTop(f) == [stack EXCEPT ![Len(stack)] = f]

OpenSessions == Cardinality({k \in DOMAIN stack : stack[k].sess = "open"})

(* the retry tests of playwright-use.py 405 and 445, patchright-use.py 391 and 404 *)
MayRetry_Once(rc) == rc < 1

MayRetry(rc) == rc < 2

(* playwright-use.py 397 and 403, patchright-use.py 389 *)
TooThin(html) == StripLen(html) < 100

(* playwright-use.py 350 and 430 *)
HasContent(html) == html # Raised /\ StripLen(html) > 100

(* a strategy that keeps any non-empty result *)
Acceptable_NonEmpty(html) == LenOf(html) > 0

(* playwright-use.py 467, patchright-use.py 434: `result and len(result.strip()) > 100` *)
Acceptable(html) == LenOf(html) > 0 /\ StripLen(html) > 100

(* the user_agent that reaches the code choosing the session's user agent:
   in playwright-use.py it is the parameter of _get_html_with_browser (line
   80), which no strategy passes (466-520) and the retries pass on (407,
   447); in patchright-use.py it is the variable of the enclosing function
   (246, 260) *)
AgentArgument(eng, override) == IF eng = "playwright" THEN NoAgent ELSE override

(* playwright-use.py 126-132, patchright-use.py 70-75 *)
SelectedAgent(agent, is_mobile) ==
    IF agent # NoAgent THEN agent ELSE IF is_mobile THEN "mobile" ELSE "default"

EngInit ==
    /\ engine \in {"playwright", "patchright"}
    /\ headless \in BOOLEAN
    /\ return_status_code \in BOOLEAN
    /\ epc = "start"
    /\ strat = 1
    /\ stack = <<>>
    /\ ret = NoRet
    /\ result = NoRet
    /\ attempts = 0
    /\ seen = {}
    /\ prev_attempts = 0
    /\ prev_seen = {}
    /\ dir_left = FALSE
    /\ tried = <<>>
    /\ user_agent \in {NoAgent, "custom"}
    /\ agents = {}

EngIdle ==
    /\ engine = "none" /\ headless = FALSE /\ return_status_code = FALSE
    /\ epc = "idle" /\ strat = 0 /\ stack = <<>> /\ ret = NoRet /\ result = NoRet
    /\ attempts = 0 /\ seen = {} /\ prev_attempts = 0 /\ prev_seen = {}
    /\ dir_left = FALSE /\ tried = <<>> /\ user_agent = NoAgent /\ agents = {}

See(lab) == seen \cup {lab}

(* agents, with the choice of the attempt on top of the stack *)
AgentsNow ==
    agents \cup {SelectedAgent(AgentArgument(engine, user_agent),
                               Strategies(engine, headless)[strat].is_mobile)}

(* a strategy calls _get_html_with_browser with retry_count = 0 *)
CallStrategy ==
    /\ epc = "start"
    /\ UNCHANGED <<sched, tabVars, poolVars, statVars>>
    /\ epc' = "run"
    /\ stack' = <<Frame(0, "top")>>
    /\ attempts' = attempts + 1
    /\ tried' = Append(tried, Strategies(engine, headless)[strat])
    /\ UNCHANGED <<engine, headless, return_status_code, strat, ret, result, seen,
                   prev_attempts, prev_seen, dir_left, user_agent, agents>>

(* `return _get_html_with_browser(..., retry_count + 1)`: the caller stays on
   the stack, with its session and its directory, while the retry runs *)
Retry(f, site) == Append(SetTop([f EXCEPT !.stage = "calling"]), Frame(f.rc + 1, site))

----------------------------------------------------------------------------
(* playwright-use.py 80-456 *)

(* the activation on top raises: `with sync_playwright()` stops its browser;
   a caller that made the call inside its try (line 407) catches it at 421, a
   caller that made it in its handler (line 447) raises in turn *)
RECURSIVE PwUnwind(_, _)
PwUnwind(stk, kind) ==
    LET f == stk[Len(stk)]
        rest == SubSeq(stk, 1, Len(stk) - 1) IN
    IF f.site = "top" THEN <<>>
    ELSE IF f.site = "thin"
    THEN [rest EXCEPT ![Len(rest)] =
            [rest[Len(rest)] EXCEPT !.stage = "except", !.exc = kind]]
    ELSE PwUnwind(rest, kind)

PwRaise(kind) ==
    /\ stack' = PwUnwind(stack, kind)
    /\ IF stack' = <<>>
       THEN ret' = RaisedOut /\ epc' = "check"
       ELSE UNCHANGED <<ret, epc>>

(* the activation on top returns v: every caller returns the same value from
   its `return _get_html_with_browser(...)`, without closing or removing
   anything itself *)
PwReturn(v) ==
    /\ stack' = <<>>
    /\ ret' = v
    /\ epc' = "check"

(* lines 111-334: mkdtemp, launch_persistent_context, page set-up; none of it
   is inside the try *)
PwEnter ==
    /\ engine = "playwright" /\ epc = "run" /\ Top.stage = "enter"
    /\ UNCHANGED <<sched, tabVars, poolVars, statVars>>
    /\ \E launch \in {"ok", "launch_raises", "setup_raises"}, kind \in ExcKinds :
         /\ agents' = IF launch = "launch_raises" THEN agents ELSE AgentsNow
         /\ IF launch = "ok"
            THEN /\ stack' = SetTop([Top EXCEPT !.stage = "body", !.dir = "live",
                                                 !.sess = "open", !.held = TRUE])
                 /\ UNCHANGED <<ret, epc, seen, dir_left>>
            ELSE /\ PwRaise(kind)
                 /\ seen' = See("other")
                 /\ dir_left' = TRUE
    /\ UNCHANGED <<engine, headless, return_status_code, strat, result, attempts,
                   prev_attempts, prev_seen, tried, user_agent>>

PwOutcome(kind, html, lab) == [kind |-> kind, html |-> html, lab |-> lab]

(* lines 411-419: status, browser.close(), rmtree, return *)
PwFinal(html, close_ok) ==
    IF close_ok THEN PwOutcome("return", html, Label(html))
    ELSE PwOutcome("handler", EmptyHtml, "other")

(* lines 337-419 for one choice of what the browser does *)
PwBodyOutcome(rc, goto_ok, probe, close1_ok, c1, c2, close2_ok) ==
    IF ~goto_ok /\ HasContent(probe) /\ close1_ok
    THEN PwOutcome("return", probe, Label(probe))
    ELSE IF c1 = Raised THEN PwOutcome("handler", EmptyHtml, "other")
    ELSE IF TooThin(c1)
    THEN IF c2 = Raised THEN PwOutcome("handler", EmptyHtml, "other")
         ELSE IF TooThin(c2) /\ MayRetry(rc) THEN PwOutcome("recurse", c2, Label(c2))
         ELSE PwFinal(c2, close2_ok)
    ELSE PwFinal(c1, close2_ok)

PwBodyOutcomes(rc) ==
    {PwBodyOutcome(rc, goto_ok, probe, close1_ok, c1, c2, close2_ok) :
        goto_ok \in BOOLEAN, probe \in ContentResults, close1_ok \in BOOLEAN,
        c1 \in ContentResults, c2 \in ContentResults, close2_ok \in BOOLEAN}

PwBody ==
    /\ engine = "playwright" /\ epc = "run" /\ Top.stage = "body"
    /\ UNCHANGED <<sched, tabVars, poolVars, statVars>>
    /\ \E o \in PwBodyOutcomes(Top.rc), status \in PwStatuses, kind \in ExcKinds :
         CASE o.kind = "return" ->
                /\ PwReturn(Value(o.html, status))
                /\ dir_left' = (dir_left \/ Len(stack) > 1)
                /\ seen' = See(o.lab)
                /\ UNCHANGED attempts
           [] o.kind = "recurse" ->
                /\ stack' = Retry(Top, "thin")
                /\ attempts' = attempts + 1
                /\ seen' = See(o.lab)
                /\ UNCHANGED <<ret, epc, dir_left>>
           [] o.kind = "handler" ->
                /\ stack' = SetTop([Top EXCEPT !.stage = "except", !.exc = kind])
                /\ UNCHANGED <<ret, epc, dir_left, attempts, seen>>
    /\ UNCHANGED <<engine, headless, return_status_code, strat, result,
                   prev_attempts, prev_seen, tried, user_agent, agents>>

(* lines 421-456 *)
PwHandlerOutcome(rc, exc, probe, close_ok, last_close_ok) ==
    IF exc = "Timeout" /\ HasContent(probe) /\ close_ok
    THEN PwOutcome("return", probe, Label(probe))
    ELSE IF MayRetry(rc) THEN PwOutcome("recurse", EmptyHtml, "other")
    ELSE IF last_close_ok THEN PwOutcome("give_up", EmptyHtml, "other")
    ELSE PwOutcome("raise", EmptyHtml, "other")

PwHandlerOutcomes(rc, exc) ==
    {PwHandlerOutcome(rc, exc, probe, close_ok, last_close_ok) :
        probe \in ContentResults, close_ok \in BOOLEAN, last_close_ok \in BOOLEAN}

PwHandler ==
    /\ engine = "playwright" /\ epc = "run" /\ Top.stage = "except"
    /\ UNCHANGED <<sched, tabVars, poolVars, statVars>>
    /\ \E o \in PwHandlerOutcomes(Top.rc, Top.exc), status \in PwStatuses,
         kind \in ExcKinds :
         /\ seen' = See(o.lab)
         /\ CASE o.kind = "return" ->
                  /\ PwReturn(Value(o.html, status))
                  /\ dir_left' = (dir_left \/ Len(stack) > 1)
                  /\ UNCHANGED attempts
             [] o.kind = "give_up" ->
                  /\ PwReturn(Value(EmptyHtml, 0))
                  /\ dir_left' = (dir_left \/ Len(stack) > 1)
                  /\ UNCHANGED attempts
             [] o.kind = "recurse" ->
                  /\ stack' = Retry(Top, "exc")
                  /\ attempts' = attempts + 1
                  /\ UNCHANGED <<ret, epc, dir_left>>
             [] o.kind = "raise" ->
                  /\ PwRaise(kind)
                  /\ dir_left' = TRUE
                  /\ UNCHANGED attempts
    /\ UNCHANGED <<engine, headless, return_status_code, strat, result,
                   prev_attempts, prev_seen, tried, user_agent, agents>>

----------------------------------------------------------------------------
(* patchright-use.py 250-424 *)

PrOutcome(kind, dir, sess, held, html, lab) ==
    [kind |-> kind, dir |-> dir, sess |-> sess, held |-> held, html |-> html, lab |-> lab]

(* lines 257-400 for one choice of what the browser does.  A directory made
   by _create_persistent_context (line 59) is known to the caller only once
   that function has returned (line 259). *)
PrRunOutcome(rc, step, c) ==
    CASE step = "start_raises" -> PrOutcome("except", "none", "none", FALSE, EmptyHtml, "other")
      [] step = "launch_raises" -> PrOutcome("except", "live", "none", FALSE, EmptyHtml, "other")
      [] step = "script_raises" -> PrOutcome("except", "live", "open", FALSE, EmptyHtml, "other")
      [] step = "page_raises" -> PrOutcome("except", "live", "open", TRUE, EmptyHtml, "other")
      [] step = "content" ->
            IF c = Raised THEN PrOutcome("except", "live", "open", TRUE, EmptyHtml, "other")
            ELSE IF TooThin(c) /\ MayRetry(rc)
            THEN PrOutcome("recurse", "live", "open", TRUE, c, Label(c))
            ELSE PrOutcome("return", "live", "open", TRUE, c, Label(c))

PrSteps == {"start_raises", "launch_raises", "script_raises", "page_raises", "content"}

(* patchright-use.py 315-335: whether the skip link was clicked; a selector
   that is not found or a click that raises is logged and nothing else *)
Bypass(first, found, click_ok) ==
    IF ~HasBlockSignature(first) THEN "none"
    ELSE IF found /\ click_ok THEN "clicked" ELSE "failed"

(* what page.content() of line 386 can give: a block page that was not
   clicked away is still there, a block page is not what a click leads to *)
PrFinalContents(first, bypass) ==
    IF first = Raised THEN {Raised}
    ELSE IF bypass = "failed" THEN {BlockPage, Raised}
    ELSE ContentResults

PrRunOutcomes(rc) ==
    {PrRunOutcome(rc, step, c) :
        step \in PrSteps,
        c \in UNION {PrFinalContents(first, Bypass(first, found, click_ok)) :
                        first \in ContentResults \cup {BlockPage},
                        found \in BOOLEAN, click_ok \in BOOLEAN}}

(* lines 289-305 *)
PrStatusCodes == IF return_status_code THEN PrStatuses ELSE {0}

PrRun ==
    /\ engine = "patchright" /\ epc = "run" /\ Top.stage = "enter"
    /\ UNCHANGED <<sched, tabVars, poolVars, statVars>>
    /\ \E o \in PrRunOutcomes(Top.rc), status \in PrStatusCodes :
         LET f == [Top EXCEPT !.dir = o.dir, !.sess = o.sess, !.held = o.held] IN
         /\ seen' = See(o.lab)
         /\ agents' = IF o.dir = "none" THEN agents ELSE AgentsNow
         /\ CASE o.kind = "except" ->
                  /\ stack' = SetTop([f EXCEPT !.stage = "except"])
                  /\ UNCHANGED attempts
             [] o.kind = "recurse" ->
                  /\ stack' = Retry(f, "thin")
                  /\ attempts' = attempts + 1
             [] o.kind = "return" ->
                  /\ stack' = SetTop([f EXCEPT !.stage = "finally",
                                               !.val = Value(o.html, status)])
                  /\ UNCHANGED attempts
    /\ UNCHANGED <<engine, headless, return_status_code, epc, strat, ret, result,
                   prev_attempts, prev_seen, dir_left, tried, user_agent>>

(* lines 402-407 *)
PrExcept ==
    /\ engine = "patchright" /\ epc = "run" /\ Top.stage = "except"
    /\ UNCHANGED <<sched, tabVars, poolVars, statVars>>
    /\ IF MayRetry(Top.rc)
       THEN /\ stack' = Retry(Top, "exc")
            /\ attempts' = attempts + 1
       ELSE /\ stack' = SetTop([Top EXCEPT !.stage = "finally",
                                           !.val = Value(EmptyHtml, 0)])
            /\ UNCHANGED attempts
    /\ UNCHANGED <<engine, headless, return_status_code, epc, strat, ret, result,
                   seen, prev_attempts, prev_seen, dir_left, tried, user_agent, agents>>

(* which clean-up call of lines 410-424 raises first, if any *)
PrCleanupFailures(f) ==
    {"none"} \cup (IF f.held THEN {"close"} ELSE {})
             \cup (IF f.dir # "none" THEN {"stop"} ELSE {})

(* lines 408-424, then the value goes to the caller, which is at its own
   `return _get_html_with_browser(...)` and runs its own finally *)
PrFinally ==
    /\ engine = "patchright" /\ epc = "run" /\ Top.stage = "finally"
    /\ UNCHANGED <<sched, tabVars, poolVars, statVars>>
    /\ \E fail \in PrCleanupFailures(Top) :
         dir_left' = (dir_left \/ (Top.dir = "live" /\ ~(fail = "none" /\ Top.held)))
    /\ IF Len(stack) = 1
       THEN /\ stack' = <<>>
            /\ ret' = Top.val
            /\ epc' = "check"
       ELSE /\ stack' = [Below EXCEPT ![Len(Below)] =
                           [Below[Len(Below)] EXCEPT !.stage = "finally", !.val = Top.val]]
            /\ UNCHANGED <<ret, epc>>
    /\ UNCHANGED <<engine, headless, return_status_code, strat, result, attempts,
                   seen, prev_attempts, prev_seen, tried, user_agent, agents>>

----------------------------------------------------------------------------
(* _try_with_different_strategies and the end of _get_single_html_source *)

(* a strategy whose `except Exception` lets the exception through *)
StrategyCheck_Reraise ==
    /\ epc = "check"
    /\ UNCHANGED <<sched, tabVars, poolVars, statVars>>
    /\ IF ret.kind = "raise"
       THEN /\ result' = ret
            /\ epc' = "done"
            /\ UNCHANGED <<strat, attempts, seen, prev_attempts, prev_seen>>
       ELSE IF Acceptable(ret.html)
       THEN /\ result' = ret
            /\ epc' = "done"
            /\ UNCHANGED <<strat, attempts, seen, prev_attempts, prev_seen>>
       ELSE IF strat < Len(Strategies(engine, headless))
       THEN /\ strat' = strat + 1
            /\ epc' = "start"
            /\ prev_attempts' = attempts /\ prev_seen' = seen
            /\ attempts' = 0 /\ seen' = {}
            /\ UNCHANGED result
       ELSE /\ result' = Value(EmptyHtml, 0)
            /\ epc' = "done"
            /\ UNCHANGED <<strat, attempts, seen, prev_attempts, prev_seen>>
    /\ ret' = NoRet
    /\ UNCHANGED <<engine, headless, return_status_code, stack, dir_left, tried, user_agent, agents>>

(* strategies that are all tried, the last acceptable value being kept *)
StrategyCheck_Continue ==
    /\ epc = "check"
    /\ UNCHANGED <<sched, tabVars, poolVars, statVars>>
    /\ result' = IF ret.kind = "value" /\ Acceptable(ret.html) THEN ret ELSE result
    /\ IF strat < Len(Strategies(engine, headless))
       THEN /\ strat' = strat + 1
            /\ epc' = "start"
            /\ prev_attempts' = attempts /\ prev_seen' = seen
            /\ attempts' = 0 /\ seen' = {}
       ELSE /\ epc' = "done"
            /\ UNCHANGED <<strat, attempts, seen, prev_attempts, prev_seen>>
    /\ ret' = NoRet
    /\ UNCHANGED <<engine, headless, return_status_code, stack, dir_left, tried, user_agent, agents>>

(* playwright-use.py 464-527, patchright-use.py 431-460 *)
StrategyCheck ==
    /\ epc = "check"
    /\ UNCHANGED <<sched, tabVars, poolVars, statVars>>
    /\ IF ret.kind = "value" /\ Acceptable(ret.html)
       THEN /\ result' = ret
            /\ epc' = "done"
            /\ UNCHANGED <<strat, attempts, seen, prev_attempts, prev_seen>>
       ELSE IF strat < Len(Strategies(engine, headless))
       THEN /\ strat' = strat + 1
            /\ epc' = "start"
            /\ prev_attempts' = attempts /\ prev_seen' = seen
            /\ attempts' = 0 /\ seen' = {}
            /\ UNCHANGED result
       ELSE /\ result' = Value(EmptyHtml, 0)
            /\ epc' = "done"
            /\ UNCHANGED <<strat, attempts, seen, prev_attempts, prev_seen>>
    /\ ret' = NoRet
    /\ UNCHANGED <<engine, headless, return_status_code, stack, dir_left, tried, user_agent, agents>>

Shaped_AlwaysStatus(html, status, with_status) ==
    IF LenOf(html) = 0 THEN Value(EmptyHtml, 0) ELSE Value(html, status)

(* playwright-use.py 533-544, patchright-use.py 466-477: a status code is
   part of the returned value only with return_status_code *)
Shaped(html, status, with_status) ==
    IF LenOf(html) = 0
    THEN Value(EmptyHtml, IF with_status THEN 0 ELSE Absent)
    ELSE Value(html, IF with_status THEN status ELSE Absent)

SingleReturn ==
    /\ epc = "done"
    /\ UNCHANGED <<sched, tabVars, poolVars, statVars>>
    /\ result' = Shaped(result.html, result.status, return_status_code)
    /\ epc' = "returned"
    /\ UNCHANGED <<engine, headless, return_status_code, strat, stack, ret, attempts,
                   seen, prev_attempts, prev_seen, dir_left, tried, user_agent, agents>>

EngNext ==
    \/ CallStrategy
    \/ PwEnter \/ PwBody \/ PwHandler
    \/ PrRun \/ PrExcept \/ PrFinally
    \/ StrategyCheck \/ SingleReturn

----------------------------------------------------------------------------
(* _batch_get_html_sources (ThreadPoolExecutor) and get_html_sources
   (ProcessPoolExecutor).  The warm-up of selenium-use.py 611-624 swallows
   its exceptions and leaves nothing the batch reads. *)

Indices == 0..(url_count - 1)

Future(state, kind, val) == [state |-> state, kind |-> kind, val |-> val]
Pending == Future("pending", "none", NoResult)

(* what _get_single_html_source can return to a thread-pool task: html the
   strategies accepted, or the failure value *)
SingleResults(with_status) ==
    {Shaped(Doc(150, 150), 200, with_status), Shaped(EmptyHtml, 0, with_status)}

(* selenium-use.py 576-597: the record of _get_page_content, or the failure
   record of either except clause *)
FetchRecords(u) ==
    {SuccessRecord(u, p.html, GetStatusCode(p.logs, u, p.has_body, p.html)) :
        p \in {q \in PagesFor(u) : q.logs = <<>>}}
    \cup {FailedRecord(u, "fetch")}

TaskValues(v, with_status, u) ==
    IF v = "thread" THEN SingleResults(with_status) ELSE FetchRecords(u)

(* playwright-use.py 579-584 *)
ThreadRecord(u, v, with_status) ==
    [url |-> u, source_code |-> v.html,
     status_code |-> IF with_status THEN v.status ELSE Absent]

CollectRecord_NoStatus(v, with_status, u, f) ==
    IF f.kind = "value"
    THEN IF v = "thread" THEN ThreadRecord(u, f.val, with_status) ELSE f.val
    ELSE IF v = "thread" THEN ThreadRecord(u, Value(EmptyHtml, 0), FALSE)
    ELSE FailedNoStatus(u, f.val)

(* the body of the `for future in as_completed(...)` loop: playwright-use.py
   574-593, selenium-use.py 639-651 *)
CollectRecord(v, with_status, u, f) ==
    IF f.kind = "value"
    THEN IF v = "thread" THEN ThreadRecord(u, f.val, with_status) ELSE f.val
    ELSE IF v = "thread" THEN ThreadRecord(u, Value(EmptyHtml, 0), with_status)
    ELSE FailedRecord(u, f.val)

NoFile == [written |-> FALSE, lines |-> <<>>]
File(lines) == [written |-> TRUE, lines |-> lines]

(* what an earlier run left at the output path *)
EarlierLine == [url |-> Absent, source_code |-> EmptyHtml]

Written_Append(old, lines) == File(old.lines \o lines)

(* open(path, 'w'), then one json.dump and a newline per record *)
Written(old, lines) == File(lines)

InOrder_Reversed(res, count) == [k \in 1..count |-> res[count - k]]

(* results in the order of url_list: playwright-use.py 567 and 586,
   selenium-use.py 653 *)
InOrder(res, count) == [k \in 1..count |-> res[k - 1]]

(* every future filed under the first index *)
FutureToIndex_Shared(i) == 0

(* future_to_index: playwright-use.py 563-565, patchright-use.py 496-498,
   selenium-use.py 634-637; futures are named by their order of submission *)
FutureToIndex(i) == i

Busy == {i \in Indices : futures[i].state \in {"running", "hung"}}
Waiting == {i \in Indices : futures[i].state = "pending"}

(* playwright-use.py 555 and 596, patchright-use.py 488 and 529: result_path
   falls back to a file name of its own; selenium-use.py 655:
   `if save_to_file and ordered_results` *)
WritesFile(v, path_given, count) == v = "thread" \/ (path_given /\ count > 0)

PoolInit ==
    /\ variant \in {"thread", "process"}
    /\ ppc = "start"
    /\ url_count \in 0..MaxUrls
    /\ max_workers \in 1..MaxWorkers
    /\ status_wanted \in (IF variant = "thread" THEN BOOLEAN ELSE {TRUE})
    /\ save_to_file \in BOOLEAN
    /\ futures = [i \in Indices |-> Pending]
    /\ results = [i \in Indices |-> NoResult]
    /\ yielded = {}
    /\ saved \in {NoFile, File(<<EarlierLine>>)}
    /\ batch_out = <<>>

PoolIdle ==
    /\ variant = "none" /\ ppc = "idle" /\ url_count = 0 /\ max_workers = 0
    /\ status_wanted = FALSE /\ save_to_file = FALSE /\ futures = <<>>
    /\ results = <<>> /\ yielded = {} /\ saved = NoFile /\ batch_out = <<>>

(* selenium-use.py 626-637, playwright-use.py 558-567: the empty list of
   get_html_sources returns at once; otherwise every url is submitted *)
Submit ==
    /\ ppc = "start"
    /\ UNCHANGED <<sched, tabVars, engVars, statVars>>
    /\ ppc' = IF variant = "process" /\ url_count = 0 THEN "returned" ELSE "collect"
    /\ UNCHANGED <<variant, url_count, max_workers, status_wanted, save_to_file,
                   futures, results, saved, batch_out, yielded>>

(* a free worker takes the oldest submitted work item *)
TaskStart ==
    /\ ppc = "collect"
    /\ UNCHANGED <<sched, tabVars, engVars, statVars>>
    /\ Waiting # {}
    /\ Cardinality(Busy) < max_workers
    /\ LET i == CHOOSE j \in Waiting : \A k \in Waiting : j <= k IN
       futures' = [futures EXCEPT ![i].state = "running"]
    /\ UNCHANGED <<variant, ppc, url_count, max_workers, status_wanted, save_to_file,
                   results, saved, batch_out, yielded>>

(* the task returns a value or raises; the future is then complete *)
TaskDone ==
    /\ ppc = "collect"
    /\ UNCHANGED <<sched, tabVars, engVars, statVars>>
    /\ \E i \in Indices :
         /\ futures[i].state = "running"
         /\ \/ \E val \in TaskValues(variant, status_wanted, UrlAt(i)) :
                 futures' = [futures EXCEPT ![i] = Future("done", "value", val)]
            \/ futures' = [futures EXCEPT ![i] = Future("done", "raise", "task")]
    /\ UNCHANGED <<variant, ppc, url_count, max_workers, status_wanted, save_to_file,
                   results, saved, batch_out, yielded>>

(* the task blocks for good in a call that has no deadline of its own *)
TaskHangs ==
    /\ ppc = "collect"
    /\ UNCHANGED <<sched, tabVars, engVars, statVars>>
    /\ \E i \in Indices :
         /\ futures[i].state = "running"
         /\ futures' = [futures EXCEPT ![i].state = "hung"]
    /\ UNCHANGED <<variant, ppc, url_count, max_workers, status_wanted, save_to_file,
                   results, saved, batch_out, yielded>>

(* ProcessPoolExecutor: a worker process ends abruptly.  The executor is then
   broken: every future that is not complete yet, whichever worker has it,
   is completed with BrokenProcessPool *)
WorkerDies ==
    /\ ppc = "collect" /\ variant = "process"
    /\ UNCHANGED <<sched, tabVars, engVars, statVars>>
    /\ \E i \in Busy :
         futures' = [j \in Indices |->
                        IF j = i THEN Future("done", "died", "BrokenProcessPool")
                        ELSE IF futures[j].state # "done"
                        THEN Future("done", "broken", "BrokenProcessPool")
                        ELSE futures[j]]
    /\ UNCHANGED <<variant, ppc, url_count, max_workers, status_wanted, save_to_file,
                   results, saved, batch_out, yielded>>

(* as_completed yields a complete future, in any order; future.result() on
   it returns or raises at once, whatever its timeout argument *)
Collect ==
    /\ ppc = "collect"
    /\ UNCHANGED <<sched, tabVars, engVars, statVars>>
    /\ \E i \in Indices :
         /\ futures[i].state = "done"
         /\ i \notin yielded
         /\ yielded' = yielded \cup {i}
         /\ LET index == FutureToIndex(i) IN
            results' = [results EXCEPT
                           ![index] = CollectRecord(variant, status_wanted, UrlAt(index),
                                                    futures[i])]
    /\ UNCHANGED <<variant, ppc, url_count, max_workers, status_wanted, save_to_file,
                   futures, saved, batch_out>>

(* as_completed has yielded every future: the executor is shut down, the
   list is put in input order, written and returned (playwright-use.py
   595-602, selenium-use.py 653-662) *)
Finish ==
    /\ ppc = "collect"
    /\ UNCHANGED <<sched, tabVars, engVars, statVars>>
    /\ yielded = Indices
    /\ batch_out' = InOrder(results, url_count)
    /\ saved' = IF WritesFile(variant, save_to_file, url_count)
                THEN Written(saved, InOrder(results, url_count)) ELSE saved
    /\ ppc' = "returned"
    /\ UNCHANGED <<variant, url_count, max_workers, status_wanted, save_to_file,
                   futures, results, yielded>>

PoolNext ==
    \/ Submit \/ TaskStart \/ TaskDone \/ TaskHangs \/ WorkerDies
    \/ Collect \/ Finish

----------------------------------------------------------------------------
EngStart == sched = "engine" /\ TabIdle /\ PoolIdle /\ StatIdle /\ EngInit

SpecEngine == EngStart /\ [][EngNext]_vars

TabStart == sched = "tab" /\ EngIdle /\ PoolIdle /\ StatIdle /\ TabInit

SpecTab == TabStart /\ [][TabNext]_vars

(* crawl_urls keeps running, and time.time() moves on: every pass ends in
   time.sleep(poll_interval) (line 534) *)
SpecTabFair == SpecTab /\ WF_vars(TabNext) /\ WF_vars(Tick)

PoolStart == sched = "pool" /\ TabIdle /\ EngIdle /\ StatIdle /\ PoolInit

StatStart == sched = "status" /\ TabIdle /\ EngIdle /\ PoolIdle /\ StatInit

SpecStatus == StatStart /\ [][StatNext]_vars

SpecPool == PoolStart /\ [][PoolNext]_vars

(* every batch scheduler: crawl_urls and the two pools *)
Init == TabStart \/ PoolStart

Next == TabNext \/ PoolNext

Spec == Init /\ [][Next]_vars

----------------------------------------------------------------------------
(* Claims about crawl_urls *)

MinContentThreshold == 100

Recorded == {i \in 0..(total - 1) : results_by_index[i] # NoResult}

(* C2 (as stated): no record is marked 'success' with a content_length below
   the minimum content threshold of 100 *)
C2_SuccessMeetsThreshold ==
    sched = "tab" =>
        \A i \in Recorded :
            results_by_index[i].status = "success"
                => results_by_index[i].content_length >= MinContentThreshold

(* Scenario A has run: 3 URLs, max_tabs = 2, the tab of URL #2 never reported
   readiness and was closed by a deadline, URLs #1 and #3 were snapshotted on
   a positive readiness probe *)
ScenarioA ==
    /\ sched = "tab" /\ tpc = "returned"
    /\ total = 3 /\ max_tabs = 2 /\ never_ready = {1}
    /\ path[0] = "ready" /\ path[2] = "ready"
    /\ path[1] \in {"soft", "hard"}

InInputOrder ==
    /\ Len(ordered) = total
    /\ \A k \in 1..total : ordered[k].url = UrlAt(k - 1)

(* C3 (as stated): in Scenario A the result has 3 records in input order, #2
   is the hard-deadline failure record, #1 and #3 are success records *)
C3_ScenarioA_HardDeadline ==
    ScenarioA =>
        /\ InInputOrder
        /\ ordered[2] = FailedNoStatus(UrlAt(1), "timeout")
        /\ ordered[1].status = "success" /\ ordered[3].status = "success"

(* C3 (amended): in Scenario A the result has 3 records in input order, #1
   and #3 are success records, and #2 is the success record of the
   soft-deadline snapshot unless its tab was first inspected past the soft
   deadline only at or after the hard deadline, when it is the hard-deadline
   failure record with empty content *)
C3_ScenarioA_SoftOrHard ==
    ScenarioA =>
        /\ InInputOrder
        /\ ordered[1].status = "success" /\ ordered[3].status = "success"
        /\ path[1] = "soft" =>
              /\ ordered[2].status = "success"
              /\ ordered[2].content_length = LenOf(ordered[2].source_code)
        /\ path[1] = "hard" => ordered[2] = FailedNoStatus(UrlAt(1), "timeout")

C3_Witness == ScenarioA /\ path[1] = "soft" /\ ordered[2].status = "success"

(* C4 (as stated): the record stored for a tab whose readiness never fires
   is a failure record *)
C4_NeverReadyFails ==
    sched = "tab" =>
        \A i \in Recorded \cap never_ready : results_by_index[i].status = "failed"

(* the step inspects the first tab of todo *)
Inspecting == sched = "tab" /\ tpc = "poll" /\ todo # <<>> /\ todo' = Tail(todo)

(* C4 (amended): a tab whose readiness never fires does not survive an
   inspection made with elapsed >= timeout: that inspection removes it from
   the active set and records its index; the record is a failure record if
   elapsed >= max(2*timeout, timeout+5) or the handle or the snapshot raised,
   and otherwise the 'success' record of the soft-deadline snapshot *)
C4_NeverReadyRemovedAtDeadline ==
    [][Inspecting =>
        LET info == InfoOf(Head(todo)) IN
        (info.idx \in never_ready /\ info.elapsed >= timeout) =>
            /\ info.handle \notin {active_tabs'[k].handle : k \in DOMAIN active_tabs'}
            /\ results_by_index[info.idx] = NoResult
            /\ results_by_index'[info.idx] # NoResult
            /\ results_by_index'[info.idx].url = info.url
            /\ info.elapsed >= Max(timeout * 2, timeout + 5)
                  => results_by_index'[info.idx].status = "failed"
            /\ results_by_index'[info.idx].status = "success"
                  => /\ info.elapsed < Max(timeout * 2, timeout + 5)
                     /\ path'[info.idx] = "soft"
            /\ (info.elapsed < Max(timeout * 2, timeout + 5)
                   /\ path'[info.idx] \notin {"handle_exc", "soft_exc"})
                  => results_by_index'[info.idx].status = "success"
    ]_vars

C4_Witness ==
    /\ sched = "tab"
    /\ \E i \in Recorded \cap never_ready :
          path[i] = "soft" /\ results_by_index[i].status = "success"

----------------------------------------------------------------------------
(* Claims about _get_single_html_source *)

(* the first strategy is over and every attempt under it gave content of
   length 40, without any exception *)
FirstStrategyThin == sched = "engine" /\ strat = 2 /\ prev_seen = {"len40"}

(* C5: Scenario B.  When every attempt under the first strategy gives content
   of length 40, that strategy makes the initial attempt and exactly two
   retries before the second strategy starts; when the first attempt of the
   second strategy gives content of length 150, that content is returned
   (length 150) and no further attempt is made *)
C5_ScenarioB ==
    FirstStrategyThin =>
        /\ prev_attempts = 3
        /\ (epc \in {"done", "returned"} /\ seen = {"len150"}) =>
              /\ attempts = 1
              /\ result.kind = "value"
              /\ result.html = Doc(150, 150)
              /\ LenOf(result.html) = 150

C5_Witness ==
    /\ FirstStrategyThin /\ epc = "returned" /\ seen = {"len150"}
    /\ prev_attempts = 3 /\ attempts = 1 /\ result.html = Doc(150, 150)

(* C7 (as stated): when the per-URL fetch has returned, no temporary profile
   directory made by one of its attempts is left on disk *)
C7_NoDirectoryLeft ==
    (sched = "engine" /\ epc = "returned") => ~dir_left

(* every strategy is over and no attempt gave content above the threshold *)
Exhausted ==
    sched = "engine" /\ epc = "returned" /\ "len150" \notin seen /\ "block" \notin seen

(* C6 (as stated): Scenario C.  When every attempt of every strategy failed,
   the fetch returns empty html with status code 0 as a value, and the batch
   record built from it has source_code '' and status_code 0 *)
C6_ExhaustedGivesStatusZero ==
    Exhausted =>
        /\ result = Value(EmptyHtml, 0)
        /\ ThreadRecord(UrlAt(0), result, return_status_code)
              = [url |-> UrlAt(0), source_code |-> EmptyHtml, status_code |-> 0]

(* C6 (amended): when every attempt of every strategy failed, the fetch
   returns a value, never an exception: empty html, with status code 0 when
   return_status_code is set and with no status code otherwise; the batch
   record built from it has source_code '' and has status_code 0 exactly when
   return_status_code is set, and no status_code field otherwise *)
C6_ExhaustedGivesFailureValue ==
    Exhausted =>
        /\ strat = Len(Strategies(engine, headless))
        /\ stack = <<>>
        /\ result.kind = "value"
        /\ result.html = EmptyHtml
        /\ result.status = (IF return_status_code THEN 0 ELSE Absent)
        /\ ThreadRecord(UrlAt(0), result, return_status_code)
              = [url |-> UrlAt(0), source_code |-> EmptyHtml,
                 status_code |-> IF return_status_code THEN 0 ELSE Absent]

C6_Witness ==
    /\ Exhausted /\ ~return_status_code /\ strat = 4 /\ "other" \in seen
    /\ result.html = EmptyHtml /\ result.status = Absent

----------------------------------------------------------------------------
(* Claims about the batch schedulers *)

PoolReturned == sched = "pool" /\ ppc = "returned"

(* C1: whenever a batch scheduler returns for a non-empty input, the returned
   list has len(input) records and record i has the url of input i *)
C1_OneRecordPerUrlInOrder ==
    /\ (sched = "tab" /\ tpc = "returned" /\ total > 0) => InInputOrder
    /\ (PoolReturned /\ url_count > 0) =>
          /\ Len(batch_out) = url_count
          /\ \A k \in 1..url_count : batch_out[k].url = UrlAt(k - 1)

C1_Witness ==
    /\ sched = "tab" /\ tpc = "returned" /\ total = 3
    /\ \E i, j, k \in 0..2 :
          /\ path[i] = "seed_fail" /\ path[j] = "ready"
          /\ results_by_index[k] = NoResult
          /\ ordered[k + 1] = FailedRecord(UrlAt(k), "No result")

(* the future of index i was completed by an exception *)
Failed(i) == futures[i].kind \in {"raise", "died", "broken"}

(* C8: a task that raised has, once collected, a failure record at its own
   index with empty source_code and status_code 0 where status codes are
   reported; the other futures are still collected, each into the record of
   its own outcome, and the batch returns one record per url *)
C8_TaskExceptionIsRecorded ==
    sched = "pool" =>
        /\ \A i \in Indices :
              (Failed(i) /\ results[i] # NoResult) =>
                  /\ results[i].url = UrlAt(i)
                  /\ results[i].source_code = EmptyHtml
                  /\ results[i].status_code = (IF status_wanted THEN 0 ELSE Absent)
                  /\ variant = "process" => results[i].content_length = 0
        /\ \A i \in Indices :
              (futures[i].kind = "value" /\ results[i] # NoResult) =>
                  results[i].source_code
                     = (IF variant = "thread" THEN futures[i].val.html
                        ELSE futures[i].val.source_code)
        /\ ppc = "returned" =>
              /\ Len(batch_out) = url_count
              /\ \A i \in Indices : results[i] # NoResult /\ batch_out[i + 1] = results[i]

C8_Witness ==
    /\ PoolReturned /\ url_count = 3
    /\ \E i, j \in Indices :
          /\ futures[i].kind = "raise" /\ batch_out[i + 1].source_code = EmptyHtml
          /\ futures[j].kind = "value" /\ batch_out[j + 1].source_code = Doc(150, 150)

(* C9 (as stated): a task that never completes does not block the batch: as
   long as the batch has not returned, some step of it can still be taken *)
C9_HungTaskDoesNotBlock ==
    sched = "pool" => (ppc = "returned" \/ ENABLED PoolNext)

(* C10 (as stated): in get_html_sources the death of a worker process gives a
   failure record only to the url that worker was fetching *)
C10_CrashIsContained ==
    (sched = "pool" /\ variant = "process") =>
        \A j \in Indices :
            results[j] = FailedRecord(UrlAt(j), "BrokenProcessPool")
                => futures[j].kind = "died"

----------------------------------------------------------------------------
(* Claims about the per-URL boundary *)

(* an exception has left _get_html_with_browser and is at the strategy's
   `except Exception` *)
ExceptionAtStrategy == sched = "engine" /\ epc = "check" /\ ret.kind = "raise"

(* C11: no exception leaves _get_single_html_source.  What the function holds
   as its result is never a raised exception; an exception that reaches a
   strategy ends there: the next strategy starts, or, after the last
   strategy, the result is the failure value (empty html, status 0); the
   value returned is empty html or html the strategies accepted *)
C11_NoExceptionEscapes ==
    /\ [](sched = "engine" =>
            /\ result.kind # "raise"
            /\ epc = "returned" =>
                  /\ result.kind = "value"
                  /\ result.html = EmptyHtml \/ Acceptable(result.html))
    /\ [][ExceptionAtStrategy =>
            /\ ret' = NoRet
            /\ result'.kind # "raise"
            /\ IF strat < Len(Strategies(engine, headless))
               THEN epc' = "start" /\ strat' = strat + 1
               ELSE epc' = "done" /\ result' = Value(EmptyHtml, 0)]_vars

C11_Witness ==
    /\ ExceptionAtStrategy /\ engine = "playwright"
    /\ strat = Len(Strategies(engine, headless)) /\ attempts = 7

----------------------------------------------------------------------------
(* Claims about the order and the persistence of a batch *)

(* the record the collector makes of the outcome of the fetch of url i *)
CarriesOwnOutcome(rec, i) ==
    /\ rec.url = UrlAt(i)
    /\ futures[i].state = "done"
    /\ IF futures[i].kind = "value"
       THEN IF variant = "thread"
            THEN /\ rec.source_code = futures[i].val.html
                 /\ rec.status_code = futures[i].val.status
            ELSE rec = futures[i].val /\ futures[i].val \in FetchRecords(UrlAt(i))
       ELSE rec.source_code = EmptyHtml

(* C12: whatever the order in which the futures complete and are collected,
   the record stored at index i, and the record at position i of the returned
   list, carries the outcome of the fetch of input url i *)
C12_OrderIndependent ==
    sched = "pool" =>
        /\ \A i \in Indices : results[i] # NoResult => CarriesOwnOutcome(results[i], i)
        /\ ppc = "returned" =>
              /\ Len(batch_out) = url_count
              /\ \A i \in Indices : CarriesOwnOutcome(batch_out[i + 1], i)

C12_Witness ==
    /\ PoolReturned /\ variant = "thread" /\ status_wanted /\ url_count = 3
    /\ futures[0].kind = "value" /\ futures[2].kind = "value"
    /\ futures[0].val.html = EmptyHtml /\ futures[2].val.html = Doc(150, 150)
    /\ batch_out[1].source_code = EmptyHtml /\ batch_out[3].source_code = Doc(150, 150)

(* the batch call has written its output file *)
Persisted == PoolReturned /\ (variant = "thread" \/ (save_to_file /\ url_count > 0))

(* C14: a persisted batch leaves a file with one line per input url, in input
   order, and no line of an earlier run *)
C14_FileHoldsThisRunOnly ==
    Persisted =>
        /\ saved.written
        /\ Len(saved.lines) = url_count
        /\ \A k \in 1..url_count :
              saved.lines[k].url = UrlAt(k - 1) /\ saved.lines[k] = results[k - 1]
        /\ \A k \in DOMAIN saved.lines : saved.lines[k] # EarlierLine

(* a batch with a returned value and a failed task has been written *)
C14_Witness ==
    /\ Persisted /\ url_count = 3 /\ saved = File(batch_out)
    /\ \E i, j \in Indices : futures[i].kind = "value" /\ futures[j].kind = "raise"

----------------------------------------------------------------------------
(* Claims about the tab pool of crawl_urls *)

AllIndices == 0..(total - 1)
ActiveIndices == {active_tabs[k].idx : k \in DOMAIN active_tabs}

(* indices whose tab was opened and later removed by an inspection *)
Removed ==
    {i \in AllIndices :
        path[i] \in {"handle_exc", "hard", "ready", "ready_exc", "soft", "soft_exc"}}

(* indices that have, or have had, a tab *)
EverOpened == ActiveIndices \cup Removed

(* C15 (as stated): when crawl_urls has left its polling loop no tab is
   active, every input url has been taken from the input, and each has been
   assigned to a tab or recorded as failed *)
C15_LoopEndsWithAllAssigned ==
    (sched = "tab" /\ tpc = "returned") =>
        /\ active_tabs = <<>>
        /\ url_iter = total
        /\ \A i \in AllIndices : i \in EverOpened \/ path[i] = "seed_fail"

(* C16 (as stated): at reassembly every input index has a record written by
   seeding or polling, so no record of the returned list is the 'No result'
   filler *)
C16_FillerNeverNeeded ==
    (sched = "tab" /\ tpc = "returned") =>
        \A k \in 1..total :
            /\ results_by_index[k - 1] # NoResult
            /\ ordered[k] = results_by_index[k - 1]
            /\ ordered[k] # FailedRecord(UrlAt(k - 1), "No result")

(* C17: at most max(1, max_tabs) tabs are active; seeding opens at most
   min(max_tabs, total) tabs; every tab opened after seeding follows the
   removal of a tab *)
C17_AtMostMaxTabs ==
    sched = "tab" =>
        /\ Len(active_tabs) <= Max(1, max_tabs)
        /\ Cardinality(Handles) = Len(active_tabs)
        /\ created <= Min(Max(1, max_tabs), total)
        /\ tpc \in {"start", "seed"} => next_handle = created
        /\ next_handle <= created + Cardinality(Removed)

C17_Witness ==
    /\ sched = "tab" /\ tpc = "poll" /\ total = 3 /\ max_tabs = 2
    /\ Len(active_tabs) = 2 /\ created = 2 /\ next_handle = 3

(* C18 (as stated): between two inspections, while urls remain in the input,
   exactly max_tabs tabs are active *)
C18_PoolKeptFull ==
    (sched = "tab" /\ tpc = "poll" /\ url_iter < total) =>
        Len(active_tabs) = max_tabs

(* C19 (as stated): a tab is always opened for the smallest index that has no
   tab yet, so no url has a tab while an earlier url never had one; the seed
   tabs are those of the first min(max_tabs, total) urls *)
C19_SmallestUnassignedFirst ==
    sched = "tab" =>
        /\ \A i \in EverOpened : \A j \in 0..(i - 1) : j \in EverOpened
        /\ tpc = "seed" => \A i \in ActiveIndices : i < Min(max_tabs, total)

(* the step opens a tab *)
OpensTab == sched = "tab" /\ next_handle' # next_handle

(* C19 (amended): urls are taken from the input in increasing index order,
   one for each attempt to open a tab; the tab a step opens is for the
   smallest index not yet taken, which is later in the input than every
   index that has or had a tab or a record; an index whose open failed gets
   no tab afterwards *)
C19_IncreasingOrder ==
    /\ [](sched = "tab" =>
            /\ \A i \in AllIndices : (i \in EverOpened \/ path[i] # "none") => i < url_iter
            /\ \A k, l \in DOMAIN active_tabs :
                  k < l => /\ active_tabs[k].idx < active_tabs[l].idx
                           /\ active_tabs[k].handle < active_tabs[l].handle)
    /\ [][OpensTab =>
            LET new == active_tabs'[Len(active_tabs')] IN
            /\ new.handle = next_handle'
            /\ new.idx = url_iter /\ new.url = UrlAt(url_iter)
            /\ url_iter' = url_iter + 1
            /\ \A i \in EverOpened : i < new.idx
            /\ \A i \in AllIndices : (i < url_iter /\ i \notin EverOpened) =>
                  i \notin ActiveIndices']_vars

(* a seed open failed for the first url, the next urls got the seed tabs *)
C19_Witness ==
    /\ sched = "tab" /\ tpc = "poll" /\ total = 3 /\ max_tabs = 2
    /\ path[0] = "seed_fail" /\ ActiveIndices = {1, 2}

(* C20: the hard deadline max(2*timeout, timeout+5) is later than the soft
   deadline for every timeout >= 0; an inspection made with elapsed at or
   past the hard deadline removes the tab and records its url as failed with
   empty content, whatever the readiness probe gives *)
C20_HardDeadline ==
    /\ [](\A t \in 0..MaxTimeout :
            /\ HardKillAfter(t) > t
            /\ HardKillAfter(t) >= 2 * t /\ HardKillAfter(t) >= t + 5
            /\ HardKillAfter(t) \in {2 * t, t + 5})
    /\ [][Inspecting =>
            LET info == InfoOf(Head(todo)) IN
            info.elapsed >= Max(timeout * 2, timeout + 5) =>
                /\ info.handle \notin {active_tabs'[k].handle : k \in DOMAIN active_tabs'}
                /\ results_by_index'[info.idx].url = info.url
                /\ results_by_index'[info.idx].status = "failed"
                /\ results_by_index'[info.idx].source_code = EmptyHtml
                /\ results_by_index'[info.idx].content_length = 0
                /\ path'[info.idx] \in {"hard", "handle_exc"}]_vars

(* a tab whose page could have been ready was closed by the hard deadline *)
C20_Witness ==
    /\ sched = "tab"
    /\ \E i \in AllIndices \ never_ready :
          /\ path[i] = "hard"
          /\ results_by_index[i] = FailedNoStatus(UrlAt(i), "timeout")

----------------------------------------------------------------------------
(* Claims about one inspection of crawl_urls *)

(* the tab the step inspects, and what the step made of it *)
Inspected == InfoOf(Head(todo))
StaysActive ==
    \E k \in DOMAIN active_tabs' :
        /\ active_tabs'[k].handle = Inspected.handle
        /\ active_tabs'[k].idx = Inspected.idx
        /\ active_tabs'[k].url = Inspected.url
        /\ active_tabs'[k].elapsed = Inspected.elapsed
RemovedNow == Inspected.handle \notin {active_tabs'[k].handle : k \in DOMAIN active_tabs'}
RecordedNow ==
    /\ results_by_index[Inspected.idx] = NoResult
    /\ results_by_index'[Inspected.idx] # NoResult
    /\ results_by_index'[Inspected.idx].url = Inspected.url
    /\ \A i \in AllIndices : i # Inspected.idx => results_by_index'[i] = results_by_index[i]
BelowHard == Inspected.elapsed < Max(timeout * 2, timeout + 5)

(* C21 (as stated): a tab inspected below the hard deadline with elapsed >=
   timeout is snapshotted: its record is written by the snapshot branch *)
C21_SnapshotAtSoftDeadline ==
    [][(Inspecting /\ BelowHard /\ Inspected.elapsed >= timeout) =>
          path'[Inspected.idx] \in {"ready", "ready_exc", "soft", "soft_exc"}]_vars

(* C21 (amended): in an inspection below the hard deadline in which switching
   to the tab does not raise, the tab is snapshotted, removed and recorded at
   its index exactly when it is ready or elapsed >= timeout; stop-loading
   comes first exactly when the probe was not positive; otherwise the tab
   stays with its index, url and start time, and nothing is recorded *)
C21_SnapshotWhenDue ==
    [][(Inspecting /\ BelowHard /\ path'[Inspected.idx] # "handle_exc") =>
          /\ RemovedNow \/ StaysActive
          /\ RemovedNow <=> RecordedNow
          /\ RemovedNow <=> path'[Inspected.idx] \in {"ready", "ready_exc", "soft", "soft_exc"}
          /\ StaysActive => results_by_index' = results_by_index /\ path' = path
          /\ Inspected.elapsed >= timeout => RemovedNow
          /\ (Inspected.elapsed < timeout /\ Inspected.idx \in never_ready) => StaysActive
          /\ (Inspected.elapsed < timeout /\ RemovedNow)
                => path'[Inspected.idx] \in {"ready", "ready_exc"}
          /\ (Inspected.idx \in never_ready /\ RemovedNow)
                => path'[Inspected.idx] \in {"soft", "soft_exc"}
          /\ path'[Inspected.idx] \in {"ready", "soft"}
                => /\ results_by_index'[Inspected.idx].status = "success"
                   /\ results_by_index'[Inspected.idx].content_length
                         = LenOf(results_by_index'[Inspected.idx].source_code)]_vars

(* a tab was snapshotted on readiness before the soft deadline while another,
   not ready, stayed *)
C21_Witness ==
    /\ sched = "tab" /\ tpc = "poll"
    /\ \E i \in AllIndices : path[i] = "ready" /\ results_by_index[i].status = "success"
    /\ \E k \in DOMAIN active_tabs :
          /\ active_tabs[k].bypassed = "True" /\ active_tabs[k].elapsed = 0
          /\ active_tabs[k].idx \in never_ready

(* the entry the inspected tab has after the step, if it stays *)
InspectedAfter ==
    CHOOSE t \in {active_tabs'[k] : k \in DOMAIN active_tabs'} : t.handle = Inspected.handle

(* C22: the fast interstitial-bypass probe runs at most once on a tab, in the
   first inspection of the tab that gets past switching to it, whichever of
   the seeding loop and the three refill blocks opened the tab: a tab that
   was never probed is probed by such an inspection, a probed tab is not
   probed again, a tab that stays is marked as probed, and no other tab's
   count moves *)
C22_ProbeOncePerTab ==
    /\ [](sched = "tab" =>
            /\ \A i \in AllIndices : probes[i] <= 1
            /\ \A k \in DOMAIN active_tabs :
                  probes[active_tabs[k].idx] = 1 <=> active_tabs[k].bypassed = "True")
    /\ [][Inspecting =>
            /\ \A i \in AllIndices : i # Inspected.idx => probes'[i] = probes[i]
            /\ path'[Inspected.idx] = "handle_exc"
                  => probes'[Inspected.idx] = probes[Inspected.idx]
            /\ path'[Inspected.idx] # "handle_exc" => probes'[Inspected.idx] = 1
            /\ StaysActive => InspectedAfter.bypassed = "True"]_vars

(* with one tab at a time, the tab of index 0 was killed at the hard deadline
   and the tab opened in its place, whose entry had no 'bypassed' key, has
   been inspected and probed once *)
C22_Witness ==
    /\ sched = "tab" /\ tpc = "poll" /\ max_tabs = 1
    /\ path[0] = "hard"
    /\ \E k \in DOMAIN active_tabs :
          /\ active_tabs[k].idx = 1
          /\ active_tabs[k].bypassed = "True"
          /\ probes[1] = 1

(* C23: when switching to a tab raises, the same inspection stores the failure
   record of the tab's url at its index and removes the tab; the handle is
   not waiting in the rest of the pass, no later step makes a handle that
   was handed out before active again, and the index keeps that record and
   gets no other tab *)
C23_HandleLostIsFinal ==
    /\ [](sched = "tab" =>
            /\ \A k \in DOMAIN todo : todo[k] \in Handles
            /\ \A h \in Handles : h <= next_handle
            /\ \A i \in AllIndices :
                  path[i] = "handle_exc" =>
                     /\ i \notin ActiveIndices
                     /\ results_by_index[i].url = UrlAt(i)
                     /\ results_by_index[i].status = "failed"
                     /\ LenOf(results_by_index[i].source_code) = 0)
    /\ [][(Inspecting /\ path'[Inspected.idx] = "handle_exc") =>
            /\ RecordedNow
            /\ results_by_index'[Inspected.idx].status = "failed"
            /\ RemovedNow
            /\ \A k \in DOMAIN todo' : todo'[k] # Inspected.handle]_vars
    /\ [][sched = "tab" =>
            \A k \in DOMAIN active_tabs' :
                \/ active_tabs'[k].handle \in Handles
                \/ active_tabs'[k].handle > next_handle]_vars

(* the tab of index 0 was lost to a handle exception, its failure record is
   stored, and the polling loop goes on with the tab of another url *)
C23_Witness ==
    /\ sched = "tab" /\ tpc = "poll"
    /\ path[0] = "handle_exc"
    /\ results_by_index[0].status = "failed"
    /\ 0 \notin ActiveIndices
    /\ todo # <<>>

----------------------------------------------------------------------------
(* Claims about the strategies of _get_single_html_source *)

(* C24 (as stated): the next strategy starts only after the strategy before
   it has made three attempts, none of which gave acceptable content *)
C24_ThreeAttemptsBeforeNextStrategy ==
    (sched = "engine" /\ strat > 1) =>
        /\ prev_attempts >= 3
        /\ "len150" \notin prev_seen

(* an attempt has handed the strategy content the strategy accepts *)
AcceptableAtStrategy ==
    sched = "engine" /\ epc = "check" /\ ret.kind = "value" /\ Acceptable(ret.html)

(* C25: short-circuit.  When an attempt hands a strategy content that the
   strategy accepts, the fetch takes that content and status as its result
   and is over: no attempt, retry or strategy starts afterwards, and the
   value returned carries that content *)
C25_ShortCircuit ==
    /\ [][AcceptableAtStrategy =>
            /\ result' = ret
            /\ epc' = "done"
            /\ strat' = strat /\ attempts' = attempts /\ stack' = <<>>]_vars
    /\ [][(sched = "engine" /\ epc \in {"done", "returned"}) =>
            /\ epc' \in {"done", "returned"}
            /\ strat' = strat /\ attempts' = attempts /\ stack' = <<>>
            /\ result'.html = result.html]_vars
    /\ [](sched = "engine" /\ epc \in {"done", "returned"} /\ "len150" \in seen =>
            /\ result.kind = "value"
            /\ result.html = Doc(150, 150))

(* the second attempt of the second strategy gave acceptable content and the
   fetch returned it, with strategies left untried *)
C25_Witness ==
    /\ sched = "engine" /\ epc = "returned"
    /\ engine = "playwright" /\ headless
    /\ strat = 2 /\ attempts = 2
    /\ result.html = Doc(150, 150)

(* C26 (as stated): an attempt's content is acceptable exactly when its length
   is >= 100: content that long handed to a strategy is returned by the
   fetch, and shorter content is not *)
C26_AcceptedFromThreshold ==
    [][(sched = "engine" /\ epc = "check" /\ ret.kind = "value") =>
          IF StripLen(ret.html) >= MinContentThreshold
          THEN epc' = "done" /\ result' = ret
          ELSE ~(epc' = "done" /\ LenOf(result'.html) > 0)]_vars

Prefix(a, b) == Len(a) <= Len(b) /\ a = SubSeq(b, 1, Len(a))

(* C27: the strategies make their calls in a fixed order.  With headless
   preferred, playwright goes headless-desktop, headless-mobile,
   headful-desktop, headful-mobile and patchright goes headless, headful;
   with headless disabled playwright goes headful-desktop, headful-mobile and
   patchright headful only, so no call asks for a headless session.  The
   calls made so far are the first `strat` of that order, and all of it when
   the fetch ends without accepted content *)
C27_FixedStrategyOrder ==
    sched = "engine" =>
        LET order ==
              IF engine = "playwright"
              THEN IF headless
                   THEN <<[use_headless |-> TRUE, is_mobile |-> FALSE],
                          [use_headless |-> TRUE, is_mobile |-> TRUE],
                          [use_headless |-> FALSE, is_mobile |-> FALSE],
                          [use_headless |-> FALSE, is_mobile |-> TRUE]>>
                   ELSE <<[use_headless |-> FALSE, is_mobile |-> FALSE],
                          [use_headless |-> FALSE, is_mobile |-> TRUE]>>
              ELSE IF headless
                   THEN <<[use_headless |-> TRUE, is_mobile |-> FALSE],
                          [use_headless |-> FALSE, is_mobile |-> FALSE]>>
                   ELSE <<[use_headless |-> FALSE, is_mobile |-> FALSE]>> IN
        /\ Prefix(tried, order)
        /\ Len(tried) = IF epc = "start" THEN strat - 1 ELSE strat
        /\ ~headless => \A k \in DOMAIN tried : ~tried[k].use_headless
        /\ (epc = "returned" /\ LenOf(result.html) = 0) => tried = order

(* playwright, headless preferred: all four strategies were called and the
   fourth, headful-mobile, gave the content that was returned *)
C27_Witness ==
    /\ sched = "engine" /\ epc = "returned"
    /\ engine = "playwright" /\ headless
    /\ Len(tried) = 4
    /\ tried[4] = [use_headless |-> FALSE, is_mobile |-> TRUE]
    /\ result.html = Doc(150, 150)

(* C28 (as stated): the content of a block page whose bypass failed is not
   what the fetch gives as its result *)
C28_BlockPageNotReturned ==
    (sched = "engine" /\ engine = "patchright") => ~HasBlockSignature(result.html)

----------------------------------------------------------------------------
(* Claims about the results array of _batch_get_html_sources *)

(* the step writes slot i of results, and only that slot *)
WritesSlot(i) ==
    /\ results'[i] # results[i]
    /\ \A j \in Indices : j # i => results'[j] = results[j]

(* C29: in the thread pool every slot of results is written exactly once: a
   step that changes results writes one slot that held None, for a future
   that as_completed yields in that step, with the record of the url at that
   index built from that future; a written slot never changes; and when the
   batch has returned no slot holds None *)
C29_EachSlotWrittenOnce ==
    /\ [][(sched = "pool" /\ variant = "thread" /\ results' # results) =>
            \E i \in Indices :
                /\ WritesSlot(i)
                /\ results[i] = NoResult
                /\ i \notin yielded /\ yielded' = yielded \cup {i}
                /\ results'[i] = CollectRecord(variant, status_wanted, UrlAt(i), futures[i])
                /\ results'[i].url = UrlAt(i)]_vars
    /\ [][(sched = "pool" /\ variant = "thread") =>
            \A i \in Indices : results[i] # NoResult => results'[i] = results[i]]_vars
    /\ [](sched = "pool" /\ variant = "thread" =>
            /\ yielded = {i \in Indices : results[i] # NoResult}
            /\ ppc = "returned" => \A i \in Indices : results[i] # NoResult)

(* a thread-pool batch of three urls has returned with every slot filled,
   the first from a value a task returned, the last from a task that raised *)
C29_Witness ==
    /\ sched = "pool" /\ variant = "thread" /\ ppc = "returned"
    /\ url_count = 3
    /\ \A i \in Indices : results[i] # NoResult /\ results[i].url = UrlAt(i)
    /\ futures[2].kind = "raise" /\ futures[0].kind = "value"

(* C30 (as stated): in both pools each url is fetched through the strategies
   and retries of _get_single_html_source, which hand back either content
   above the threshold or, after every retry and strategy, the failure
   value: no record of a batch holds content that is too thin *)
C30_FetchedThroughRetryEngine ==
    sched = "pool" =>
        \A i \in Indices :
            results[i] # NoResult =>
                \/ LenOf(results[i].source_code) = 0
                \/ StripLen(results[i].source_code) > MinContentThreshold

----------------------------------------------------------------------------
(* Claims about the records and the returned values *)

(* C31 (as stated): every failure record crawl_urls stores or returns has
   empty content, a status_code of 0 and content_length 0 *)
C31_FailureRecordsCarryStatusZero ==
    sched = "tab" =>
        /\ \A i \in AllIndices :
              (results_by_index[i] # NoResult /\ results_by_index[i].status = "failed") =>
                  /\ results_by_index[i].source_code = EmptyHtml
                  /\ results_by_index[i].status_code = 0
                  /\ results_by_index[i].content_length = 0
        /\ \A k \in DOMAIN ordered :
              ordered[k].status = "failed" =>
                  /\ ordered[k].source_code = EmptyHtml
                  /\ ordered[k].status_code = 0
                  /\ ordered[k].content_length = 0

(* C32 (as stated): a batch call that was given no output path leaves the
   file system as it was: no file is created or truncated *)
C32_NoPathNoFile ==
    [][(sched = "pool" /\ ~save_to_file) => saved' = saved]_vars

(* C33 (as stated): when the caller gives a user agent, every attempt of
   every strategy chooses that user agent for its session *)
C33_OverrideAlwaysUsed ==
    (sched = "engine" /\ user_agent # NoAgent) => agents \subseteq {user_agent}

----------------------------------------------------------------------------
(* Claims about _get_status_code *)

(* entry k of the log that was read is a response for the request url with a
   status that is not 0 *)
Matches(k) ==
    /\ sc_read[k].method = "Network.responseReceived"
    /\ sc_read[k].url = UrlAt(0)
    /\ sc_read[k].status # 0

(* C34: _get_status_code returns the status of the first log entry that is a
   response for the request url with a non-zero status; when the log has no
   such entry, or cannot be read, it returns 200 if a body node is found and
   page_source is longer than 100 characters, and 0 otherwise; whatever the
   driver does, it returns *)
C34_LayeredStatusFallback ==
    sched = "status" =>
        /\ sc_pc = "returned" =>
              IF \E k \in DOMAIN sc_read : Matches(k)
              THEN \E k \in DOMAIN sc_read :
                      /\ Matches(k)
                      /\ \A j \in 1..(k - 1) : ~Matches(j)
                      /\ sc_code = sc_read[k].status
              ELSE sc_code = (IF sc_body = "yes" /\ LenOf(sc_page) > MinContentThreshold
                              THEN 200 ELSE 0)
        /\ sc_pc = "returned" => sc_read = (IF sc_access = "ok" THEN sc_log ELSE <<>>)
        /\ sc_pc # "returned" => ENABLED StatNext

(* the log held an entry without status for the url, then a 404 response for
   it, and 404 was returned although the page alone would have given 200 *)
C34_Witness ==
    /\ sched = "status" /\ sc_pc = "returned"
    /\ Len(sc_read) = 2
    /\ ~Matches(1) /\ sc_read[1].url = UrlAt(0)
    /\ Matches(2) /\ sc_code = 404
    /\ sc_body = "yes" /\ LenOf(sc_page) > MinContentThreshold

----------------------------------------------------------------------------
(* Claims about the indices of crawl_urls *)

(* C35: no input index has more than one tab or more than one record.  At
   every point two active tabs are for different indices, an index with an
   active tab has no record, an index with a record has no active tab, an
   index is given to a tab only when it had neither, and a record once
   stored is never replaced *)
C35_OneTabOneRecordPerIndex ==
    /\ [](sched = "tab" =>
            /\ \A k, l \in DOMAIN active_tabs :
                  active_tabs[k].idx = active_tabs[l].idx => k = l
            /\ ActiveIndices \cap Recorded = {}
            /\ \A k \in DOMAIN active_tabs :
                  /\ active_tabs[k].idx < url_iter
                  /\ active_tabs[k].url = UrlAt(active_tabs[k].idx))
    /\ [][sched = "tab" =>
            /\ \A i \in AllIndices :
                  results_by_index[i] # NoResult => results_by_index'[i] = results_by_index[i]
            /\ \A k \in DOMAIN active_tabs' :
                  active_tabs'[k].idx \notin ActiveIndices
                      => /\ active_tabs'[k].idx \notin Recorded
                         /\ active_tabs'[k].idx = url_iter]_vars

(* of three urls two have their records, written by different branches, and
   the third is in flight in the only active tab *)
C35_Witness ==
    /\ sched = "tab" /\ tpc = "poll" /\ total = 3
    /\ Cardinality(Recorded) = 2
    /\ Len(active_tabs) = 1
    /\ \E i, j \in Recorded : path[i] = "hard" /\ path[j] = "ready"

----------------------------------------------------------------------------
(* Claims about the sessions and the attempts of one fetch *)

(* C36 (as stated): during the fetch of one url at most one browser session
   is open at any instant *)
C36_OneSessionAtATime ==
    sched = "engine" => OpenSessions <= 1

(* C37 (as stated): no strategy makes more than 3 attempts *)
C37_AtMostThreeAttemptsPerStrategy ==
    sched = "engine" => attempts <= 3 /\ prev_attempts <= 3

----------------------------------------------------------------------------
(* Claims about the end of the polling loop *)

(* urls not yet taken from the input, plus active tabs *)
Outstanding == (total - url_iter) + Len(active_tabs)

(* C38: the polling loop ends when time moves on between passes.  An
   inspection made with elapsed >= timeout removes its tab; a removal opens
   at most one tab and takes at most one url from the input, so the number
   of urls not yet taken plus active tabs goes down with every removal and
   never goes up; every inspection shortens the pass; while a tab is below
   the soft deadline time can move on; the loop is never stuck, and it is
   left only by returning the ordered list, one record per url, with no tab
   active *)
C38_PollingLoopEnds ==
    /\ [][Inspecting =>
            /\ Inspected.elapsed >= timeout => RemovedNow
            /\ Len(todo') < Len(todo)
            /\ RemovedNow =>
                  /\ Len(active_tabs') <= Len(active_tabs)
                  /\ url_iter' \in {url_iter, url_iter + 1}
                  /\ Outstanding' < Outstanding]_vars
    /\ [][sched = "tab" =>
            /\ Outstanding' <= Outstanding
            /\ (tpc = "poll" /\ tpc' # "poll") =>
                  /\ tpc' = "returned"
                  /\ active_tabs' = <<>>
                  /\ Len(ordered') = total]_vars
    /\ [](sched = "tab" /\ tpc = "poll" =>
            /\ ENABLED TabNext
            /\ (\E k \in DOMAIN active_tabs : active_tabs[k].elapsed < timeout)
                  => ENABLED Tick
            /\ (todo = <<>> /\ active_tabs # <<>>) => ENABLED NextPass
            /\ (todo = <<>> /\ active_tabs = <<>>) => ENABLED Return)

(* C38, as a property of the runs in which crawl_urls keeps running and time
   moves on: once in the polling loop, crawl_urls comes to return *)
C38_LoopReturns ==
    (sched = "tab" /\ tpc = "poll")
        ~> (tpc = "returned" /\ active_tabs = <<>> /\ Len(ordered) = total)

(* crawl_urls has returned the list for three urls after a tab that never
   became ready was removed at the soft deadline *)
C38_Witness ==
    /\ sched = "tab" /\ tpc = "returned" /\ total = 3 /\ Len(ordered) = 3
    /\ \E i \in never_ready : path[i] \in {"soft", "soft_exc"}

(* C39 (as stated): the single-URL fetch of playwright and patchright returns
   either empty html with status 0 or html whose stripped length is greater
   than 100 *)
C39_FailureValueOrAcceptedHtml ==
    (sched = "engine" /\ epc = "returned") =>
        \/ result = Value(EmptyHtml, 0)
        \/ StripLen(result.html) > 100

(* C39 (amended): the single-URL fetch returns a value that is either the
   failure value, which is empty html with status 0 when return_status_code
   is set and the empty html alone when it is not, or html whose stripped
   length is greater than 100; non-empty html at or below the threshold is
   never returned, whatever the last attempt of a strategy returned *)
C39_EmptyOrAboveThreshold ==
    (sched = "engine" /\ epc = "returned") =>
        /\ result.kind = "value"
        /\ \/ result = Value(EmptyHtml, IF return_status_code THEN 0 ELSE Absent)
           \/ StripLen(result.html) > 100
        /\ ~(LenOf(result.html) > 0 /\ StripLen(result.html) <= 100)

(* the fetch has returned the empty html with no status code after all three
   attempts of the last strategy returned thin, non-empty content *)
C39_Witness ==
    /\ sched = "engine" /\ epc = "returned"
    /\ strat = Len(Strategies(engine, headless))
    /\ seen = {"len40"} /\ attempts = 3
    /\ ~return_status_code
    /\ result = Value(EmptyHtml, Absent)
====
